---- MODULE Spec2Model ----
(***************************************************************************)
(* Model of the swap panel of xaiksan1/swap:                               *)
(*   - the quote hook useJupiter (interface/src/hooks/useJupiter.ts):      *)
(*     refresh / exchange as asynchronous handlers split at their awaits,  *)
(*     the aggregator service and the wallet adapter as the environment;   *)
(*   - the pricing reconciliation of QuoteInfo                             *)
(*     (interface/src/components/swap/quote-info.tsx).                     *)
(***************************************************************************)
EXTENDS Integers, Sequences, FiniteSets, Bags, TLC

VARIABLES
    \* ---- useJupiter: React state of the hook ----
    quote,            \* JupiterQuoteResponse | undefined
    error,            \* JupiterErrorResponse | undefined
    loading,          \* boolean
    selectedRoute,    \* JupiterRoute | undefined
    \* ---- useJupiter: inputs of the hook ----
    selectedNetwork,  \* wallet state: selected network | undefined
    selectedAccount,  \* wallet state: selected account | undefined
    \* ---- environment: requests outstanding on the services ----
    inflight,         \* call id -> request awaited by a refresh / exchange call
    started,          \* number of refresh / exchange calls that reached a request
    last,             \* the step taken last, with its inputs
    \* ---- QuoteInfo: pricing reconciliation ----
    props,            \* [selectedQuoteOption, fromToken, toToken]
    spotPrices,       \* wallet state: [makerAsset, takerAsset], USD prices
    shown,            \* what the component rendered last | undefined
    \* ---- WalletStateProvider ----
    state,            \* WalletState; the three registries are held by reference
    heap,             \* the registry objects: reference -> contents
    fetches,          \* bag of the getter calls that have not settled
    event             \* the provider step taken last, with its inputs

vars == <<quote, error, loading, selectedRoute, selectedNetwork,
          selectedAccount, inflight, started, last,
          props, spotPrices, shown, state, heap, fetches, event>>

hookVars == <<quote, error, loading, selectedRoute, selectedNetwork,
              selectedAccount, inflight, started, last>>

infoVars == <<props, spotPrices, shown>>

walletVars == <<state, heap, fetches, event>>

----------------------------------------------------------------------------
(* Bounds *)

\* refresh / exchange calls that reach a service request, per behaviour
MaxCalls == 2

\* the factors both rates are multiplied by run up to MaxScale
MaxScale == 3

\* getter calls of the wallet state provider that may be unsettled at once
MaxPending == 5

----------------------------------------------------------------------------
(* Values *)

Undefined == [kind |-> "undefined"]

\* a spot price that is not there (falsy)
NoPrice == <<>>

Solana == "SOL"
Ethereum == "ETH"

WRAPPED_SOL_CONTRACT_ADDRESS == "So11111111111111111111111111111111111111112"

Networks == {[coin |-> Solana], [coin |-> Ethereum]}

Accounts == {[address |-> "acc1"], [address |-> "acc2"]}

\* the native asset has an empty contract address
NativeToken == [contractAddress |-> ""]
SplToken == [contractAddress |-> "EPjFWdd5"]

Routes == {[outAmount |-> "10"], [outAmount |-> "11"]}

\* the quotes the aggregator may answer with
QuoteResponses ==
    { [routes |-> <<>>],
      [routes |-> <<[outAmount |-> "10"], [outAmount |-> "11"]>>],
      [routes |-> <<[outAmount |-> "11"]>>] }

\* the payloads the aggregator may answer with
PayloadResponses == {[swapTransaction |-> "txA"], [swapTransaction |-> "txB"]}

\* messages of the exceptions a service call may be rejected with
ErrorMessages ==
    { "{\"statusCode\":400,\"message\":\"No routes found\"}",
      "{\"statusCode\":500,\"message\":\"Internal error\"}",
      "{\"statusCode\":400,",
      "Failed to fetch" }

ParamsSet ==
    [ fromToken : {Undefined, NativeToken},
      toToken : {Undefined, SplToken},
      fromAmount : {"", "1"},
      slippagePercentage : {1} ]

\* Partial<SwapParams>: the overrides a caller of refresh passes
OverridesSet ==
    { [f \in {} |-> Undefined] }
      \cup { [f \in {"fromAmount"} |-> a] : a \in {"", "1"} }
      \cup { [f \in {"toToken"} |-> t] : t \in {Undefined, SplToken} }

----------------------------------------------------------------------------
(* Helpers of useJupiter *)

\* { ...params, ...overrides }
MergeParams(p, overrides) ==
    [f \in DOMAIN p |-> IF f \in DOMAIN overrides THEN overrides[f] ELSE p[f]]

\* selectedNetwork?.coin !== CoinType.Solana
NotSolana(network) == network = Undefined \/ network.coin # Solana

\* token.contractAddress || WRAPPED_SOL_CONTRACT_ADDRESS
MintOf(token) ==
    IF token.contractAddress = "" THEN WRAPPED_SOL_CONTRACT_ADDRESS
    ELSE token.contractAddress

\* JSON.parse((e as Error).message): the parsed value, or a SyntaxError
JSONParse(message) ==
    CASE message = "{\"statusCode\":400,\"message\":\"No routes found\"}" ->
            [ok |-> TRUE, value |-> [statusCode |-> 400, message |-> "No routes found"]]
      [] message = "{\"statusCode\":500,\"message\":\"Internal error\"}" ->
            [ok |-> TRUE, value |-> [statusCode |-> 500, message |-> "Internal error"]]
      [] OTHER -> [ok |-> FALSE, value |-> Undefined]

\* the ids of the calls awaiting service svc
Awaiting(svc) == {id \in DOMAIN inflight : inflight[id].svc = svc}

Without(f, id) == [i \in DOMAIN f \ {id} |-> f[i]]

With(f, id, v) == [i \in DOMAIN f \cup {id} |-> IF i = id THEN v ELSE f[i]]

----------------------------------------------------------------------------
(* useJupiter.refresh *)

\* variant: an empty amount returns without clearing
RefreshDecision_NoClear(network, overriddenParams) ==
    IF NotSolana(network) THEN "return"
    ELSE IF overriddenParams.fromToken = Undefined
            \/ overriddenParams.toToken = Undefined THEN "return"
    ELSE IF overriddenParams.fromAmount = "" THEN "return"
    ELSE "fetch"

\* variant: the network is not validated
RefreshDecision_AnyNetwork(network, overriddenParams) ==
    IF overriddenParams.fromToken = Undefined
       \/ overriddenParams.toToken = Undefined THEN "return"
    ELSE IF overriddenParams.fromAmount = "" THEN "clear"
    ELSE "fetch"

\* the validation at the head of refresh: what the call goes on to do
RefreshDecision(network, overriddenParams) ==
    IF NotSolana(network) THEN "return"
    ELSE IF overriddenParams.fromToken = Undefined
            \/ overriddenParams.toToken = Undefined THEN "return"
    ELSE IF overriddenParams.fromAmount = "" THEN "clear"
    ELSE "fetch"

\* the argument of swapService.getJupiterQuote
QuoteRequest(overriddenParams) ==
    [ inputMint |-> MintOf(overriddenParams.fromToken),
      outputMint |-> MintOf(overriddenParams.toToken),
      amount |-> overriddenParams.fromAmount,
      slippagePercentage |-> overriddenParams.slippagePercentage ]

\* variant: the parsed error is dropped
ErrorAfterCatch_Dropped(message, current) == current

\* variant: a message that does not parse clears the error
ErrorAfterCatch_Cleared(message, current) ==
    IF JSONParse(message).ok THEN JSONParse(message).value ELSE Undefined

\* the value of error after the catch block of a rejected service call
ErrorAfterCatch(message, current) ==
    IF JSONParse(message).ok THEN JSONParse(message).value ELSE current

\* refresh(overrides) of the hook rendered with params, up to its return or
\* its await
Refresh(params, overrides) ==
    LET overriddenParams == MergeParams(params, overrides)
        decision == RefreshDecision(selectedNetwork, overriddenParams)
    IN  /\ CASE decision = "return" ->
                  UNCHANGED <<quote, error, loading, inflight, started>>
             [] decision = "clear" ->
                  /\ quote' = Undefined
                  /\ error' = Undefined
                  /\ UNCHANGED <<loading, inflight, started>>
             [] decision = "fetch" ->
                  /\ started < MaxCalls
                  /\ loading' = TRUE
                  /\ started' = started + 1
                  /\ inflight' = With(inflight, started + 1,
                                      [ svc |-> "getJupiterQuote",
                                        args |-> QuoteRequest(overriddenParams) ])
                  /\ UNCHANGED <<quote, error>>
        /\ last' = [op |-> "refresh", overriddenParams |-> overriddenParams]
        /\ UNCHANGED <<selectedRoute, selectedNetwork, selectedAccount>>
        /\ UNCHANGED infoVars
        /\ UNCHANGED walletVars

\* variant: only the response of the call started last is applied
QuoteResolved_LatestOnly(id, response) ==
    /\ id \in Awaiting("getJupiterQuote")
    /\ quote' = IF id = started THEN response ELSE quote
    /\ loading' = FALSE
    /\ inflight' = Without(inflight, id)
    /\ last' = [ op |-> "quoteResolved", id |-> id,
                 response |-> response ]
    /\ UNCHANGED <<error, selectedRoute, selectedNetwork,
                   selectedAccount, started>>
    /\ UNCHANGED infoVars
    /\ UNCHANGED walletVars

\* swapService.getJupiterQuote resolves: refresh resumes after its await
QuoteResolved(id, response) ==
    /\ id \in Awaiting("getJupiterQuote")
    /\ quote' = response
    /\ loading' = FALSE
    /\ inflight' = Without(inflight, id)
    /\ last' = [ op |-> "quoteResolved", id |-> id,
                 response |-> response ]
    /\ UNCHANGED <<error, selectedRoute, selectedNetwork,
                   selectedAccount, started>>
    /\ UNCHANGED infoVars
    /\ UNCHANGED walletVars

\* swapService.getJupiterQuote rejects with an Error carrying message
QuoteRejected(id, message) ==
    /\ id \in Awaiting("getJupiterQuote")
    /\ error' = ErrorAfterCatch(message, error)
    /\ loading' = FALSE
    /\ inflight' = Without(inflight, id)
    /\ last' = [ op |-> "quoteRejected", id |-> id,
                 message |-> message ]
    /\ UNCHANGED <<quote, selectedRoute, selectedNetwork,
                   selectedAccount, started>>
    /\ UNCHANGED infoVars
    /\ UNCHANGED walletVars

----------------------------------------------------------------------------
(* useJupiter.exchange *)

\* variant: a quote without routes is let through
ExchangeReturnsEarly_AnyRoutes(q, network, p, account) ==
    \/ q = Undefined
    \/ NotSolana(network)
    \/ p.toToken = Undefined
    \/ account = Undefined

\* variant: the network is not validated
ExchangeReturnsEarly_AnyNetwork(q, network, p, account) ==
    \/ q = Undefined
    \/ Len(q.routes) = 0
    \/ p.toToken = Undefined
    \/ account = Undefined

\* the validation at the head of exchange: TRUE when the call returns early
ExchangeReturnsEarly(q, network, p, account) ==
    \/ q = Undefined
    \/ Len(q.routes) = 0
    \/ NotSolana(network)
    \/ p.toToken = Undefined
    \/ account = Undefined

\* variant: the first route of the quote is sent whatever is selected
RouteToSend_First(route, q) ==
    IF Len(q.routes) = 0 THEN Undefined ELSE q.routes[1]

\* selectedRoute || quote.routes[0]; an index past the end reads undefined
RouteToSend(route, q) ==
    IF route # Undefined THEN route
    ELSE IF Len(q.routes) = 0 THEN Undefined
    ELSE q.routes[1]

\* the argument of swapService.getJupiterTransactionsPayload
PayloadRequest(q, route, p, account) ==
    [ userPublicKey |-> account.address,
      route |-> RouteToSend(route, q),
      outputMint |-> MintOf(p.toToken) ]

\* the argument of solWalletAdapter.sendTransaction
SendRequest(response, account) ==
    [ encodedTransaction |-> response.swapTransaction,
      from |-> account.address,
      sendOptions |-> [skipPreflight |-> TRUE] ]

\* exchange() of the hook rendered with params, up to its return or its first
\* await; selectedAccount, which the callback closes over and reads again
\* after the await, stays with the call
Exchange(params) ==
    /\ IF ExchangeReturnsEarly(quote, selectedNetwork, params, selectedAccount)
       THEN UNCHANGED <<loading, inflight, started>>
       ELSE /\ started < MaxCalls
            /\ loading' = TRUE
            /\ started' = started + 1
            /\ inflight' = With(inflight, started + 1,
                                [ svc |-> "getJupiterTransactionsPayload",
                                  args |-> PayloadRequest(quote, selectedRoute,
                                                          params, selectedAccount),
                                  closure |-> [ selectedAccount |->
                                                    selectedAccount ] ])
    /\ last' = [op |-> "exchange", toToken |-> params.toToken]
    /\ UNCHANGED <<quote, error, selectedRoute, selectedNetwork,
                   selectedAccount>>
    /\ UNCHANGED infoVars
    /\ UNCHANGED walletVars

\* swapService.getJupiterTransactionsPayload resolves: exchange goes on to
\* solWalletAdapter.sendTransaction and awaits it
PayloadResolved(id, response) ==
    /\ id \in Awaiting("getJupiterTransactionsPayload")
    /\ LET request == SendRequest(response, inflight[id].closure.selectedAccount)
       IN  /\ inflight' = [inflight EXCEPT ![id] =
                              [ svc |-> "sendTransaction", args |-> request,
                                closure |-> inflight[id].closure ]]
    /\ last' = [ op |-> "payloadResolved", id |-> id,
                 response |-> response ]
    /\ UNCHANGED <<quote, error, loading, selectedRoute,
                   selectedNetwork, selectedAccount, started>>
    /\ UNCHANGED infoVars
    /\ UNCHANGED walletVars

\* swapService.getJupiterTransactionsPayload rejects: response stays unset
PayloadRejected(id, message) ==
    /\ id \in Awaiting("getJupiterTransactionsPayload")
    /\ error' = ErrorAfterCatch(message, error)
    /\ loading' = FALSE
    /\ inflight' = Without(inflight, id)
    /\ last' = [ op |-> "payloadRejected", id |-> id,
                 message |-> message ]
    /\ UNCHANGED <<quote, selectedRoute, selectedNetwork,
                   selectedAccount, started>>
    /\ UNCHANGED infoVars
    /\ UNCHANGED walletVars

\* solWalletAdapter.sendTransaction resolves
SendResolved(id) ==
    /\ id \in Awaiting("sendTransaction")
    /\ loading' = FALSE
    /\ inflight' = Without(inflight, id)
    /\ last' = [op |-> "sendResolved", id |-> id]
    /\ UNCHANGED <<quote, error, selectedRoute, selectedNetwork,
                   selectedAccount, started>>
    /\ UNCHANGED infoVars
    /\ UNCHANGED walletVars

\* variant: the adapter's failure is put into error
ErrorAfterSendCatch_Surfaced(message, current) == [message |-> message]

\* the value of error after the catch block of a rejected sendTransaction
ErrorAfterSendCatch(message, current) == current

\* solWalletAdapter.sendTransaction rejects: the error is logged
SendRejected(id, message) ==
    /\ id \in Awaiting("sendTransaction")
    /\ error' = ErrorAfterSendCatch(message, error)
    /\ loading' = FALSE
    /\ inflight' = Without(inflight, id)
    /\ last' = [ op |-> "sendRejected", id |-> id,
                 message |-> message ]
    /\ UNCHANGED <<quote, selectedRoute, selectedNetwork,
                   selectedAccount, started>>
    /\ UNCHANGED infoVars
    /\ UNCHANGED walletVars

----------------------------------------------------------------------------
(* The hook's surroundings *)

\* setSelectedRoute(route)
SetSelectedRoute(route) ==
    /\ selectedRoute' = route
    /\ last' = [op |-> "setSelectedRoute"]
    /\ UNCHANGED <<quote, error, loading, selectedNetwork,
                   selectedAccount, inflight, started>>
    /\ UNCHANGED infoVars
    /\ UNCHANGED walletVars

\* the wallet state store publishes another selected network
UpdateSelectedNetwork(network) ==
    /\ selectedNetwork' = network
    /\ last' = [op |-> "updateSelectedNetwork"]
    /\ UNCHANGED <<quote, error, loading, selectedRoute,
                   selectedAccount, inflight, started>>
    /\ UNCHANGED infoVars
    /\ UNCHANGED walletVars

\* the wallet state store publishes another selected account
UpdateSelectedAccount(account) ==
    /\ selectedAccount' = account
    /\ last' = [op |-> "updateSelectedAccount"]
    /\ UNCHANGED <<quote, error, loading, selectedRoute,
                   selectedNetwork, inflight, started>>
    /\ UNCHANGED infoVars
    /\ UNCHANGED walletVars

----------------------------------------------------------------------------
(* Amount: decimal arithmetic, here exact fractions <<numerator, denominator>>
   in lowest terms with a positive denominator *)

Abs(n) == IF n < 0 THEN -n ELSE n

RECURSIVE GCD(_, _)
GCD(a, b) == IF b = 0 THEN a ELSE GCD(b, a % b)

Normalize(n, d) ==
    LET g == GCD(Abs(n), Abs(d))
        sign == IF d < 0 THEN -1 ELSE 1
    IN  <<sign * (n \div g), sign * (d \div g)>>

AmountZero == <<0, 1>>

AmountDiv(a, b) == Normalize(a[1] * b[2], a[2] * b[1])

AmountMinus(a, b) == Normalize(a[1] * b[2] - b[1] * a[2], a[2] * b[2])

\* times(k), k an integer
AmountTimes(a, k) == Normalize(a[1] * k, a[2])

\* gte(k), k an integer
AmountGte(a, k) == a[1] >= k * a[2]

----------------------------------------------------------------------------
(* QuoteInfo: pricing reconciliation *)

\* variant: the difference is not divided by the quote rate
coinGeckoDelta_NoDiv(p, prices) ==
    IF /\ p.fromToken # Undefined
       /\ p.toToken # Undefined
       /\ prices.makerAsset # NoPrice
       /\ prices.takerAsset # NoPrice
       /\ p.selectedQuoteOption # Undefined
    THEN LET coinGeckoRate == AmountDiv(prices.makerAsset, prices.takerAsset)
             quoteRate == p.selectedQuoteOption.rate
         IN  AmountTimes(AmountMinus(quoteRate, coinGeckoRate), 100)
    ELSE AmountZero

\* the memo coinGeckoDelta
coinGeckoDelta(p, prices) ==
    IF /\ p.fromToken # Undefined
       /\ p.toToken # Undefined
       /\ prices.makerAsset # NoPrice
       /\ prices.takerAsset # NoPrice
       /\ p.selectedQuoteOption # Undefined
    THEN LET coinGeckoRate == AmountDiv(prices.makerAsset, prices.takerAsset)
             quoteRate == p.selectedQuoteOption.rate
         IN  AmountTimes(AmountDiv(AmountMinus(quoteRate, coinGeckoRate),
                                   quoteRate), 100)
    ELSE AmountZero

\* variant: the lower boundary of "within" is exclusive
coinGeckoDeltaText_Exclusive(delta) ==
    IF AmountGte(delta, 0)
    THEN [key |-> "braveSwapCoinGeckoCheaper", amount |-> delta]
    ELSE IF AmountGte(delta, -1) /\ delta # <<-1, 1>>
    THEN [key |-> "braveSwapCoinGeckoWithin", amount |-> AmountTimes(delta, -1)]
    ELSE [key |-> "braveSwapCoinGeckoExpensive", amount |-> AmountTimes(delta, -1)]

\* the memo coinGeckoDeltaText: the locale key and the amount put in for $1
coinGeckoDeltaText(delta) ==
    IF AmountGte(delta, 0)
    THEN [key |-> "braveSwapCoinGeckoCheaper", amount |-> delta]
    ELSE IF AmountGte(delta, -1)
    THEN [key |-> "braveSwapCoinGeckoWithin", amount |-> AmountTimes(delta, -1)]
    ELSE [key |-> "braveSwapCoinGeckoExpensive", amount |-> AmountTimes(delta, -1)]

\* variant: the two thresholds are swapped
coinGeckoDeltaColor_Swapped(delta) ==
    IF AmountGte(delta, -5) THEN "success"
    ELSE IF AmountGte(delta, -1) THEN "warning"
    ELSE "error"

\* the memo coinGeckoDeltaColor
coinGeckoDeltaColor(delta) ==
    IF AmountGte(delta, -1) THEN "success"
    ELSE IF AmountGte(delta, -5) THEN "warning"
    ELSE "error"

\* what QuoteInfo renders from its props and the wallet state
Rendered(p, prices) ==
    LET delta == coinGeckoDelta(p, prices)
    IN  [ delta |-> delta,
          text |-> coinGeckoDeltaText(delta),
          color |-> coinGeckoDeltaColor(delta) ]

\* rates a quote option may carry
Rates == {<<1, 1>>, <<2, 1>>, <<11, 5>>, <<100, 1>>}

\* USD spot prices the wallet state may hold
Prices == { <<1, 1>>, <<50, 1>>, <<99, 1>>, <<100, 1>>, <<101, 1>>,
            <<102, 1>>, <<105, 1>>, <<106, 1>>, <<1, 2>> }

PropsSet ==
    [ selectedQuoteOption : {Undefined} \cup {[rate |-> r] : r \in Rates},
      fromToken : {Undefined, NativeToken},
      toToken : {Undefined, SplToken} ]

SpotPricesSet ==
    [makerAsset : Prices \cup {NoPrice}, takerAsset : Prices \cup {NoPrice}]

\* QuoteInfo is mounted and renders
Mount ==
    /\ shown = Undefined
    /\ shown' = Rendered(props, spotPrices)
    /\ UNCHANGED <<props, spotPrices>>
    /\ UNCHANGED hookVars
    /\ UNCHANGED walletVars

\* the parent passes other props: QuoteInfo renders again
SetProps(p) ==
    /\ shown # Undefined
    /\ props' = p
    /\ shown' = Rendered(p, spotPrices)
    /\ UNCHANGED spotPrices
    /\ UNCHANGED hookVars
    /\ UNCHANGED walletVars

\* the wallet state publishes other spot prices: QuoteInfo renders again
SetSpotPrices(prices) ==
    /\ shown # Undefined
    /\ spotPrices' = prices
    /\ shown' = Rendered(props, prices)
    /\ UNCHANGED props
    /\ UNCHANGED hookVars
    /\ UNCHANGED walletVars

InitInfo ==
    /\ props \in PropsSet
    /\ spotPrices \in SpotPricesSet
    /\ shown = Undefined

----------------------------------------------------------------------------
(* Wallet state: values *)

NATIVE_ASSET_CONTRACT_ADDRESS_0X == "0xeeeeeeeeeeeeeeeeeeeeeeeeeeeeeeeeeeeeeeee"

\* a registry without keys
EmptyRegistry == [k \in {} |-> ""]

\* The registries of the wallet state are objects.  The object that
\* initialState.tokenSpotPrices holds and the one that
\* initialState.networkFeeEstimates holds are written in place by the
\* refresh effect; the object that tokenBalances holds is a new one after
\* every updateTokenBalances, and no closure keeps an older one.
PricesObject == "initialState.tokenSpotPrices"
EstimatesObject == "initialState.networkFeeEstimates"
BalancesObject == "tokenBalances"

initialState ==
    [ tokenBalances |-> BalancesObject,
      tokenSpotPrices |-> PricesObject,
      tokenList |-> <<>>,
      selectedAccount |-> Undefined,
      selectedNetwork |-> Undefined,
      isConnected |-> FALSE,
      supportedNetworks |-> <<>>,
      braveWalletAccounts |-> <<>>,
      supportedExchanges |-> <<>>,
      userSelectedExchanges |-> <<>>,
      networkFeeEstimates |-> EstimatesObject,
      defaultBaseCurrency |-> "",
      isNetworkSupported |-> TRUE ]

initialHeap ==
    [ ref \in {BalancesObject, PricesObject, EstimatesObject} |-> EmptyRegistry ]

\* what the getters of the swap context may resolve with
SolanaMainnet == [chainId |-> "0x65", coin |-> Solana, symbol |-> "SOL"]

WalletAccount == [address |-> "acc1", coin |-> Solana]

WalletTokens ==
    << [contractAddress |-> "EPjFWdd5", isToken |-> TRUE, chainId |-> "0x65"] >>

GetterResults(getter) ==
    CASE getter = "getSelectedNetwork" -> {SolanaMainnet}
      [] getter = "getSupportedNetworks" -> {<<SolanaMainnet>>}
      [] getter = "getSelectedAccount" -> {WalletAccount}
      [] getter = "getBraveWalletAccounts" -> {<<WalletAccount>>}
      [] getter = "getDefaultBaseCurrency" -> {"USD"}
      [] getter = "getExchanges" -> {<<"Orca">>}
      [] getter = "getAllTokens" -> {<<>>, WalletTokens}
      [] getter = "getTokenPrice" -> {"1.5", "2.5"}
      [] getter = "getNetworkFeeEstimate" -> {"0.000005"}
      [] getter = "getTokenBalance" -> {"0x10"}
      [] getter = "getBalance" -> {"0x2a"}

\* String.prototype.toLowerCase, on the contract addresses above
ToLowerCase(str) ==
    CASE str = "EPjFWdd5" -> "epjfwdd5"
      [] OTHER -> str

\* Amount.normalize: a balance, hexadecimal as the wallet reports it, in
\* decimal digits
AmountNormalize(result) ==
    CASE result = "0x10" -> "16"
      [] result = "0x2a" -> "42"
      [] OTHER -> result

----------------------------------------------------------------------------
(* WalletReducer *)

\* variant: the payload replaces the registry
MergeRegistry_Replace(registry, payload) == payload

\* { ...registry, ...payload }
MergeRegistry(registry, payload) ==
    [ k \in DOMAIN registry \cup DOMAIN payload |->
        IF k \in DOMAIN payload THEN payload[k] ELSE registry[k] ]

\* WalletReducer(state, action), with the registry objects it reads and
\* creates: the payload of updateTokenBalances is an object literal, those of
\* updateTokenSpotPrices and updateNetworkFeeEstimates are references
WalletReducer(st, hp, action) ==
    CASE action.type = "updateTokenBalances" ->
            [ state |-> [st EXCEPT !.tokenBalances = BalancesObject],
              heap |-> [hp EXCEPT ![BalancesObject] =
                           MergeRegistry(hp[st.tokenBalances], action.payload)] ]
      [] action.type = "updateTokenSpotPrices" ->
            [ state |-> [st EXCEPT !.tokenBalances = action.payload],
              heap |-> hp ]
      [] action.type = "updateTokenList" ->
            [state |-> [st EXCEPT !.tokenList = action.payload], heap |-> hp]
      [] action.type = "updateSelectedNetwork" ->
            [state |-> [st EXCEPT !.selectedNetwork = action.payload], heap |-> hp]
      [] action.type = "updateSupportedNetworks" ->
            [state |-> [st EXCEPT !.supportedNetworks = action.payload], heap |-> hp]
      [] action.type = "updateIsNetworkSupported" ->
            [state |-> [st EXCEPT !.isNetworkSupported = action.payload], heap |-> hp]
      [] action.type = "updateSelectedAccount" ->
            [state |-> [st EXCEPT !.selectedAccount = action.payload], heap |-> hp]
      [] action.type = "updateBraveWalletAccounts" ->
            [state |-> [st EXCEPT !.braveWalletAccounts = action.payload], heap |-> hp]
      [] action.type = "updateSupportedExchanges" ->
            [state |-> [st EXCEPT !.supportedExchanges = action.payload], heap |-> hp]
      [] action.type = "updateUserSelectedExchanges" ->
            [state |-> [st EXCEPT !.userSelectedExchanges = action.payload], heap |-> hp]
      [] action.type = "updateNetworkFeeEstimates" ->
            [state |-> [st EXCEPT !.networkFeeEstimates = action.payload], heap |-> hp]
      [] action.type = "updateDefaultBaseCurrency" ->
            [state |-> [st EXCEPT !.defaultBaseCurrency = action.payload], heap |-> hp]
      [] action.type = "setIsConnected" ->
            [state |-> [st EXCEPT !.isConnected = action.payload], heap |-> hp]
      [] OTHER -> [state |-> st, heap |-> hp]

----------------------------------------------------------------------------
(* WalletStateProvider *)

Elements(seq) == {seq[i] : i \in DOMAIN seq}

\* the getter calls of the mount effect
MountEffect ==
    { [getter |-> "getSelectedNetwork"],
      [getter |-> "getSupportedNetworks"],
      [getter |-> "getSelectedAccount"],
      [getter |-> "getBraveWalletAccounts"],
      [getter |-> "getDefaultBaseCurrency"],
      [getter |-> "getExchanges"] }

\* !tokenSpotPrices[NATIVE_ASSET_CONTRACT_ADDRESS_0X]
NoNativePrice(registry) ==
    \/ NATIVE_ASSET_CONTRACT_ADDRESS_0X \notin DOMAIN registry
    \/ registry[NATIVE_ASSET_CONTRACT_ADDRESS_0X] = ""

\* the getter calls of one run of the refresh effect, each with what its
\* callbacks close over
RefreshEffect(st, hp) ==
    LET tokens == Elements(st.tokenList)
        networks == Elements(st.supportedNetworks)
        allTokens ==
            IF Len(st.tokenList) = 0 /\ st.selectedNetwork # Undefined
            THEN {[getter |-> "getAllTokens"]}
            ELSE {}
        spotPriceCalls ==
            IF /\ Len(st.tokenList) # 0
               /\ NoNativePrice(hp[st.tokenSpotPrices])
               /\ Len(st.supportedNetworks) # 0
            THEN { [ getter |-> "getTokenPrice", key |-> token.contractAddress,
                     prices |-> st.tokenSpotPrices ] : token \in tokens }
                 \cup
                 { [ getter |-> "getTokenPrice", key |-> network.symbol,
                     prices |-> st.tokenSpotPrices ] : network \in networks }
            ELSE {}
        feeCalls ==
            IF Len(st.supportedNetworks) # 0
            THEN { [ getter |-> "getNetworkFeeEstimate", key |-> network.chainId,
                     estimates |-> st.networkFeeEstimates ] : network \in networks }
            ELSE {}
        balanceCalls ==
            IF st.selectedNetwork # Undefined /\ st.selectedAccount # Undefined
            THEN { [ getter |-> IF token.isToken THEN "getTokenBalance"
                                ELSE "getBalance",
                     key |-> token.contractAddress ] : token \in tokens }
            ELSE {}
    IN  allTokens \cup spotPriceCalls \cup feeCalls \cup balanceCalls

\* the dependencies of the refresh effect that a dispatch replaces
RefreshDependencies ==
    { "updateTokenList", "updateSelectedAccount", "updateSelectedNetwork",
      "updateSupportedNetworks" }

\* variant: the price is written into a copy of the registry
WriteInPlace_Copy(hp, ref, key, result) == hp

\* registry[key] = result, on the object itself
WriteInPlace(hp, ref, key, result) ==
    [hp EXCEPT ![ref] = With(hp[ref], key, result)]

\* the action a getter call dispatches when it resolves
ActionOf(fetch, result) ==
    CASE fetch.getter = "getSelectedNetwork" ->
            [type |-> "updateSelectedNetwork", payload |-> result]
      [] fetch.getter = "getSupportedNetworks" ->
            [type |-> "updateSupportedNetworks", payload |-> result]
      [] fetch.getter = "getSelectedAccount" ->
            [type |-> "updateSelectedAccount", payload |-> result]
      [] fetch.getter = "getBraveWalletAccounts" ->
            [type |-> "updateBraveWalletAccounts", payload |-> result]
      [] fetch.getter = "getDefaultBaseCurrency" ->
            [type |-> "updateDefaultBaseCurrency", payload |-> result]
      [] fetch.getter = "getExchanges" ->
            [type |-> "updateSupportedExchanges", payload |-> result]
      [] fetch.getter = "getAllTokens" ->
            [type |-> "updateTokenList", payload |-> result]
      [] fetch.getter = "getTokenPrice" ->
            [type |-> "updateTokenSpotPrices", payload |-> fetch.prices]
      [] fetch.getter = "getNetworkFeeEstimate" ->
            [type |-> "updateNetworkFeeEstimates", payload |-> fetch.estimates]
      [] fetch.getter \in {"getTokenBalance", "getBalance"} ->
            [ type |-> "updateTokenBalances",
              payload |-> [ k \in {ToLowerCase(fetch.key)} |->
                              AmountNormalize(result) ] ]

\* the registry objects once the then-callback of the call has written into
\* the object it closes over
HeapWritten(hp, fetch, result) ==
    CASE fetch.getter = "getTokenPrice" ->
            WriteInPlace(hp, fetch.prices, fetch.key, result)
      [] fetch.getter = "getNetworkFeeEstimate" ->
            WriteInPlace(hp, fetch.estimates, fetch.key, result)
      [] OTHER -> hp

\* variant: a failed call puts the initial state back
StateAfterCatch_Reset(st, fetch) == initialState

\* the state after .catch(error => console.log(error))
StateAfterCatch(st, fetch) == st

\* what a getter call resolved with, next to the getter's name: results of
\* different getters are values of different kinds
Resolved(fetch, result) == <<fetch.getter, result>>

\* a getter call resolves: its callback dispatches, the provider renders
\* again and, when a dependency was replaced, the refresh effect runs again
FetchResolved(fetch, result) ==
    /\ BagIn(fetch, fetches)
    /\ LET action == ActionOf(fetch, result)
           reduced == WalletReducer(state, HeapWritten(heap, fetch, result), action)
           issued == IF action.type \in RefreshDependencies
                     THEN RefreshEffect(reduced.state, reduced.heap)
                     ELSE {}
       IN  /\ state' = reduced.state
           /\ heap' = reduced.heap
           /\ fetches' = (fetches (-) SetToBag({fetch})) (+) SetToBag(issued)
           /\ BagCardinality(fetches') <= MaxPending
    /\ event' = [ op |-> "resolved", fetch |-> fetch,
                 result |-> Resolved(fetch, result) ]
    /\ UNCHANGED hookVars
    /\ UNCHANGED infoVars

\* a getter call rejects: the error is logged
FetchRejected(fetch) ==
    /\ BagIn(fetch, fetches)
    /\ state' = StateAfterCatch(state, fetch)
    /\ fetches' = fetches (-) SetToBag({fetch})
    /\ event' = [op |-> "rejected", fetch |-> fetch]
    /\ UNCHANGED heap
    /\ UNCHANGED hookVars
    /\ UNCHANGED infoVars

\* the provider is mounted: both effects have run
InitWallet ==
    /\ state = initialState
    /\ heap = initialHeap
    /\ fetches = SetToBag(MountEffect \cup RefreshEffect(initialState, initialHeap))
    /\ event = [op |-> "mount"]

\* the hook and QuoteInfo on their own: the provider holds its initial state
NoWallet ==
    /\ state = initialState
    /\ heap = initialHeap
    /\ fetches = EmptyBag
    /\ event = [op |-> "none"]

----------------------------------------------------------------------------
(* The hook as a state machine *)

\* the hook on its own: no QuoteInfo is mounted
NoInfo ==
    /\ props = [ selectedQuoteOption |-> Undefined, fromToken |-> Undefined,
                 toToken |-> Undefined ]
    /\ spotPrices = [makerAsset |-> NoPrice, takerAsset |-> NoPrice]
    /\ shown = Undefined

InitHook ==
    /\ quote = Undefined
    /\ error = Undefined
    /\ loading = FALSE
    /\ selectedRoute = Undefined
    /\ selectedNetwork = Undefined
    /\ selectedAccount = Undefined
    /\ inflight = [i \in {} |-> Undefined]
    /\ started = 0
    /\ last = [op |-> "init"]

Init == InitHook /\ NoInfo /\ NoWallet

Next ==
    \/ \E params \in ParamsSet, overrides \in OverridesSet :
          Refresh(params, overrides)
    \/ \E id \in DOMAIN inflight, response \in QuoteResponses :
          QuoteResolved(id, response)
    \/ \E id \in DOMAIN inflight, message \in ErrorMessages :
          QuoteRejected(id, message)
    \/ \E params \in ParamsSet : Exchange(params)
    \/ \E id \in DOMAIN inflight, response \in PayloadResponses :
          PayloadResolved(id, response)
    \/ \E id \in DOMAIN inflight, message \in ErrorMessages :
          PayloadRejected(id, message)
    \/ \E id \in DOMAIN inflight : SendResolved(id)
    \/ \E id \in DOMAIN inflight, message \in ErrorMessages :
          SendRejected(id, message)
    \/ \E route \in Routes \cup {Undefined} : SetSelectedRoute(route)
    \/ \E network \in Networks \cup {Undefined} : UpdateSelectedNetwork(network)
    \/ \E account \in Accounts \cup {Undefined} : UpdateSelectedAccount(account)

Spec == Init /\ [][Next]_vars

----------------------------------------------------------------------------
(* QuoteInfo as a state machine *)

InitQuoteInfo == InitHook /\ InitInfo /\ NoWallet

NextQuoteInfo ==
    \/ Mount
    \/ \E p \in PropsSet : SetProps(p)
    \/ \E prices \in SpotPricesSet : SetSpotPrices(prices)

SpecQuoteInfo == InitQuoteInfo /\ [][NextQuoteInfo]_vars

----------------------------------------------------------------------------
(* WalletStateProvider as a state machine *)

InitProvider == InitHook /\ NoInfo /\ InitWallet

NextProvider ==
    \/ \E fetch \in BagToSet(fetches) :
          \E result \in GetterResults(fetch.getter) : FetchResolved(fetch, result)
    \/ \E fetch \in BagToSet(fetches) : FetchRejected(fetch)

SpecProvider == InitProvider /\ [][NextProvider]_vars

\* every getter call the two effects can make
GetterCalls ==
    LET st == [initialState EXCEPT !.tokenList = WalletTokens,
                                   !.selectedNetwork = SolanaMainnet,
                                   !.selectedAccount = WalletAccount,
                                   !.supportedNetworks = <<SolanaMainnet>>]
    IN  MountEffect \cup {[getter |-> "getAllTokens"]}
                    \cup RefreshEffect(st, initialHeap)

\* the promise of a getter call settles: it resolves or it rejects
GetterSettles(fetch) ==
    \/ \E result \in GetterResults(fetch.getter) : FetchResolved(fetch, result)
    \/ FetchRejected(fetch)

\* the provider when no promise of a getter stays pending for ever
SpecProviderSettling ==
    /\ InitProvider
    /\ [][NextProvider]_vars
    /\ \A fetch \in GetterCalls : WF_<<state, heap, fetches>>(GetterSettles(fetch))

----------------------------------------------------------------------------
(* Properties of useJupiter *)

\* the selected network's coin is Solana
OnSolana == selectedNetwork # Undefined /\ selectedNetwork.coin = Solana

\* the ids of the requests on service svc that the step has issued
Issued(svc) ==
    { id \in DOMAIN inflight' :
        /\ inflight'[id].svc = svc
        /\ (id \notin DOMAIN inflight \/ inflight[id].svc # svc) }

\* the step is a refresh whose merged params carry an empty fromAmount
RefreshedWithoutAmount ==
    /\ last'.op = "refresh"
    /\ last'.overriddenParams.fromAmount = ""

\* the step is a refresh whose merged params carry both tokens
RefreshedWithTokens ==
    /\ last'.op = "refresh"
    /\ last'.overriddenParams.fromToken # Undefined
    /\ last'.overriddenParams.toToken # Undefined

\* C1 as stated: a refresh with an empty fromAmount (after the overrides are
\* merged over params) leaves quote and error undefined and issues no
\* getJupiterQuote call, whatever the quote and the error were before.
C1_ClearsOnAnyEmptyAmount ==
    [][ RefreshedWithoutAmount =>
          /\ quote' = Undefined
          /\ error' = Undefined
          /\ Issued("getJupiterQuote") = {} ]_vars

\* C1 as amended: a refresh with an empty fromAmount, called while the
\* selected network's coin is Solana and with both tokens present, leaves
\* quote and error undefined and issues no getJupiterQuote call, whatever the
\* quote and the error were before.
C1_ClearsOnEmptyAmount ==
    [][ (RefreshedWithoutAmount /\ RefreshedWithTokens /\ OnSolana) =>
          /\ quote' = Undefined
          /\ error' = Undefined
          /\ Issued("getJupiterQuote") = {}
          /\ inflight' = inflight ]_vars

\* C1 witness: such a refresh has run after an earlier call had completed
C1_Witness ==
    /\ last.op = "refresh"
    /\ last.overriddenParams.fromAmount = ""
    /\ last.overriddenParams.fromToken # Undefined
    /\ last.overriddenParams.toToken # Undefined
    /\ OnSolana
    /\ quote = Undefined
    /\ error = Undefined
    /\ started = 1
    /\ DOMAIN inflight = {}

\* C2: a getJupiterQuote request is issued only by a refresh that runs while
\* the selected network's coin is Solana, with both tokens present and a
\* non-empty fromAmount; a refresh whose network or token guard fails changes
\* none of quote, error, loading.
C2_FetchOnlyWhenValid ==
    [][ /\ Issued("getJupiterQuote") # {} =>
              /\ RefreshedWithTokens
              /\ OnSolana
              /\ last'.overriddenParams.fromAmount # ""
        /\ (last'.op = "refresh" /\ (~OnSolana \/ ~RefreshedWithTokens)) =>
              /\ quote' = quote
              /\ error' = error
              /\ loading' = loading
              /\ inflight' = inflight ]_vars

\* C2 witness: a refresh has issued a quote request
C2_Witness ==
    /\ last.op = "refresh"
    /\ last.overriddenParams.fromAmount # ""
    /\ OnSolana
    /\ \E id \in DOMAIN inflight :
          /\ inflight[id].svc = "getJupiterQuote"
          /\ inflight[id].args.amount = last.overriddenParams.fromAmount

\* C3 as stated: a refresh that passes its guards sets loading before the
\* request; when the aggregator has answered, quote is the response on
\* success and error is defined (the aggregator's error) on any failure, and
\* loading is false.
C3_QuoteOrErrorOnAnyFailure ==
    /\ [][Issued("getJupiterQuote") # {} => loading']_vars
    /\ [](last.op = "quoteResolved" =>
            quote = last.response /\ ~loading)
    /\ [](last.op = "quoteRejected" =>
            error # Undefined /\ ~loading)

\* C3 as amended: a refresh that passes its guards sets loading before the
\* request; when the aggregator has answered, quote is the response on
\* success, error is the parsed error on a failure whose message parses as
\* JSON, and loading is false in either case and after any other failure.
C3_QuoteOrParsedError ==
    /\ [][Issued("getJupiterQuote") # {} => loading']_vars
    /\ [](last.op = "quoteResolved" =>
            quote = last.response /\ ~loading)
    /\ [](last.op = "quoteRejected" =>
            /\ ~loading
            /\ JSONParse(last.message).ok =>
                  error = JSONParse(last.message).value)

\* C3 witness: a quote request was rejected with a structured error
C3_Witness ==
    /\ last.op = "quoteRejected"
    /\ JSONParse(last.message).ok
    /\ error = JSONParse(last.message).value
    /\ ~loading

\* C4: exchange called while quote is undefined or has no routes calls
\* neither getJupiterTransactionsPayload nor sendTransaction and leaves
\* quote, error, loading and selectedRoute unchanged.
C4_ExchangeWithoutRoutes ==
    [][ (last'.op = "exchange" /\ (quote = Undefined \/ Len(quote.routes) = 0)) =>
          /\ Issued("getJupiterTransactionsPayload") = {}
          /\ Issued("sendTransaction") = {}
          /\ inflight' = inflight
          /\ quote' = quote
          /\ error' = error
          /\ loading' = loading
          /\ selectedRoute' = selectedRoute ]_vars

\* C4 witness: exchange has run on a quote without routes, everything else
\* it validates being in place
C4_Witness ==
    /\ last.op = "exchange"
    /\ quote # Undefined
    /\ Len(quote.routes) = 0
    /\ OnSolana
    /\ last.toToken # Undefined
    /\ selectedAccount # Undefined

\* C5: sendTransaction is called only by an exchange that ran on a quote with
\* a route, on Solana, with toToken and a selected account, and whose
\* payload request resolved; it is called once per exchange call, with the
\* payload's swapTransaction and the address of the account selected when
\* exchange was called.
C5_SendOnlyAfterPayload ==
    [][ /\ \A id \in Issued("getJupiterTransactionsPayload") :
              /\ last'.op = "exchange"
              /\ quote # Undefined
              /\ Len(quote.routes) >= 1
              /\ OnSolana
              /\ last'.toToken # Undefined
              /\ selectedAccount # Undefined
              /\ inflight'[id].args.userPublicKey = selectedAccount.address
              /\ inflight'[id].closure.selectedAccount = selectedAccount
        /\ \A id \in Issued("sendTransaction") :
              /\ last'.op = "payloadResolved"
              /\ last'.id = id
              /\ id \in DOMAIN inflight
              /\ inflight[id].svc = "getJupiterTransactionsPayload"
              /\ inflight'[id].args.encodedTransaction =
                    last'.response.swapTransaction
              /\ inflight'[id].args.from = inflight[id].args.userPublicKey
        /\ last'.op = "payloadResolved" =>
              Issued("sendTransaction") = {last'.id}
        /\ \A id \in DOMAIN inflight :
              (inflight[id].svc = "sendTransaction" /\ id \in DOMAIN inflight')
                  => inflight'[id] = inflight[id] ]_vars

\* C5 witness: the adapter has been called for an account that is no longer
\* the selected one
C5_Witness ==
    /\ last.op = "payloadResolved"
    /\ inflight[last.id].svc = "sendTransaction"
    /\ inflight[last.id].args.encodedTransaction = last.response.swapTransaction
    /\ selectedAccount # Undefined
    /\ inflight[last.id].args.from # selectedAccount.address

C7_AggregatorFailure ==
    [][ last'.op \in {"quoteRejected", "payloadRejected"} =>
          /\ IF JSONParse(last'.message).ok
             THEN error' = JSONParse(last'.message).value
             ELSE error' = error /\ quote' = quote
          /\ last'.id \notin DOMAIN inflight'
          /\ Issued("sendTransaction") = {} ]_vars

\* C7 witness: a quote request failed without a JSON body while an error
\* was set, and the error is still there
C7_Witness ==
    /\ last.op = "quoteRejected"
    /\ ~JSONParse(last.message).ok
    /\ error # Undefined
    /\ ~loading

----------------------------------------------------------------------------
(* Properties of the pricing reconciliation *)

\* every input of the delta is there
AllPresent ==
    /\ props.fromToken # Undefined
    /\ props.toToken # Undefined
    /\ props.selectedQuoteOption # Undefined
    /\ spotPrices.makerAsset # NoPrice
    /\ spotPrices.takerAsset # NoPrice

\* d = (R_quote - R_ref) / R_quote * 100 with R_ref = maker / taker,
\* multiplied out over the fractions q = R_quote, m = maker, t = taker
IsDeltaOf(d, q, m, t) ==
    d[1] * (m[2] * t[1] * q[1]) =
        100 * (m[2] * t[1] * q[1] - m[1] * t[2] * q[2]) * d[2]

\* C8: the text is "cheaper" when delta >= 0, "within" when
\* -1 <= delta < 0 and "more expensive" when delta < -1, where
\* delta = (R_quote - R_ref) / R_quote * 100 and R_ref = spot(FROM) / spot(TO);
\* every delta falls in exactly one class.
C8_DeltaText ==
    shown # Undefined =>
        LET d == shown.delta
            key == shown.text.key
        IN  /\ d[2] > 0
            /\ AllPresent =>
                  IsDeltaOf(d, props.selectedQuoteOption.rate,
                            spotPrices.makerAsset, spotPrices.takerAsset)
            /\ (d[1] >= 0) <=> (key = "braveSwapCoinGeckoCheaper")
            /\ (d[1] < 0 /\ d[1] >= -d[2]) <=> (key = "braveSwapCoinGeckoWithin")
            /\ (d[1] < -d[2]) <=> (key = "braveSwapCoinGeckoExpensive")

\* C8 witness: a delta of exactly -1 is shown as "within"
C8_Witness ==
    /\ shown # Undefined
    /\ AllPresent
    /\ shown.delta = <<-1, 1>>
    /\ shown.text.key = "braveSwapCoinGeckoWithin"

\* C9: the color is success when delta >= -1, warning when
\* -5 <= delta < -1 and error when delta < -5; it is success exactly when
\* the text is "cheaper" or "within".
C9_DeltaColor ==
    shown # Undefined =>
        LET d == shown.delta
        IN  /\ (d[1] >= -d[2]) <=> (shown.color = "success")
            /\ (d[1] < -d[2] /\ d[1] >= -5 * d[2]) <=> (shown.color = "warning")
            /\ (d[1] < -5 * d[2]) <=> (shown.color = "error")
            /\ (shown.color = "success") <=>
                  (shown.text.key \in { "braveSwapCoinGeckoCheaper",
                                        "braveSwapCoinGeckoWithin" })

\* C9 witness: a delta of exactly -5 is shown in the warning color
C9_Witness ==
    /\ shown # Undefined
    /\ AllPresent
    /\ shown.delta = <<-5, 1>>
    /\ shown.color = "warning"

\* the positive factors c and 1/c, c in 2 .. MaxScale
Scales == {<<c, 1>> : c \in 2..MaxScale} \cup {<<1, c>> : c \in 2..MaxScale}

Scaled(a, c) == Normalize(a[1] * c[1], a[2] * c[2])

\* C10: for positive rates, delta, and with it the text and the color, is
\* unchanged when R_quote and R_ref are both multiplied by the same positive
\* factor.
C10_ScaleInvariant ==
    (shown # Undefined /\ AllPresent) =>
        \A c \in Scales :
            Rendered([props EXCEPT !.selectedQuoteOption.rate = Scaled(@, c)],
                     [spotPrices EXCEPT !.makerAsset = Scaled(@, c)]) = shown

\* C10 witness: the example of the specification, a quote at 2.2 against a
\* reference rate of 2, is shown 100/11 percent cheaper
C10_Witness ==
    /\ shown # Undefined
    /\ AllPresent
    /\ props.selectedQuoteOption.rate = <<11, 5>>
    /\ spotPrices = [makerAsset |-> <<100, 1>>, takerAsset |-> <<50, 1>>]
    /\ shown.delta = <<100, 11>>
    /\ shown.text.key = "braveSwapCoinGeckoCheaper"
    /\ shown.color = "success"

----------------------------------------------------------------------------
(* Properties of useJupiter under overlapping calls *)

\* C12: a quote request that resolves is applied whatever was started or
\* applied meanwhile: quote becomes its response, also when the call is not
\* the one started last, and the requests still outstanding stay outstanding
\* (nothing is cancelled).
C12_NoCancellation ==
    [][ last'.op = "quoteResolved" =>
          /\ quote' = last'.response
          /\ \A id \in DOMAIN inflight \ {last'.id} :
                id \in DOMAIN inflight' /\ inflight'[id] = inflight[id] ]_vars

\* C12 witness: of two calls, the one started first has resolved last and its
\* response is the quote
C12_Witness ==
    /\ last.op = "quoteResolved"
    /\ last.id = 1
    /\ started = 2
    /\ DOMAIN inflight = {}
    /\ quote = last.response
    /\ error = Undefined

\* C16: the route exchange sends to getJupiterTransactionsPayload is
\* selectedRoute when one is set and the first route of the quote otherwise.
C16_RouteSent ==
    [][ \A id \in Issued("getJupiterTransactionsPayload") :
          inflight'[id].args.route =
              IF selectedRoute # Undefined THEN selectedRoute
              ELSE quote.routes[1] ]_vars

\* C16 witness: exchange has sent a selected route that is not the first
\* route of the quote
C16_Witness ==
    /\ last.op = "exchange"
    /\ selectedRoute # Undefined
    /\ quote # Undefined
    /\ Len(quote.routes) >= 1
    /\ selectedRoute # quote.routes[1]
    /\ \E id \in DOMAIN inflight :
          /\ inflight[id].svc = "getJupiterTransactionsPayload"
          /\ inflight[id].args.route = selectedRoute

\* C18: quote and error are never both defined.
C18_QuoteXorError == ~(quote # Undefined /\ error # Undefined)

\* C19: loading is true whenever a request started by refresh or exchange is
\* outstanding.
C19_LoadingWhileOutstanding == DOMAIN inflight # {} => loading

\* C20: right after a refresh with an empty fromAmount has cleared the quote,
\* a quote request that was outstanding at the clear and now settles leaves
\* quote and error undefined.
C20_ClearedStaysCleared ==
    [][ ( /\ last.op = "refresh"
          /\ last.overriddenParams.fromAmount = ""
          /\ last.overriddenParams.fromToken # Undefined
          /\ last.overriddenParams.toToken # Undefined
          /\ OnSolana
          /\ quote = Undefined
          /\ error = Undefined
          /\ last'.op \in {"quoteResolved", "quoteRejected"} ) =>
          /\ quote' = Undefined
          /\ error' = Undefined ]_vars

----------------------------------------------------------------------------
(* Properties of the wallet state provider *)

\* the registries as a reader of the state sees them
TokenBalances == heap[state.tokenBalances]
TokenSpotPrices == heap[state.tokenSpotPrices]
NetworkFeeEstimates == heap[state.networkFeeEstimates]

\* the fields of the wallet state other than tokenBalances
OtherThanBalances ==
    [ f \in DOMAIN state \ {"tokenBalances"} |->
        IF f = "tokenSpotPrices" THEN TokenSpotPrices
        ELSE IF f = "networkFeeEstimates" THEN NetworkFeeEstimates
        ELSE state[f] ]

\* the step is the settling of a call of one of the getters
Settled(op, getters) ==
    /\ event'.op = op
    /\ event'.fetch.getter \in getters

\* a registry holds value under key
Holds(registry, key, value) == key \in DOMAIN registry /\ registry[key] = value

\* the result of the call that has resolved is where the state keeps it
ResultApplied ==
    LET getter == event'.fetch.getter
        result == event'.result[2]
    IN  CASE getter = "getSelectedNetwork" -> state'.selectedNetwork = result
          [] getter = "getSupportedNetworks" -> state'.supportedNetworks = result
          [] getter = "getSelectedAccount" -> state'.selectedAccount = result
          [] getter = "getBraveWalletAccounts" -> state'.braveWalletAccounts = result
          [] getter = "getDefaultBaseCurrency" -> state'.defaultBaseCurrency = result
          [] getter = "getExchanges" -> state'.supportedExchanges = result
          [] getter = "getAllTokens" -> state'.tokenList = result
          [] getter = "getTokenPrice" ->
                Holds(TokenSpotPrices', event'.fetch.key, result)
          [] getter = "getNetworkFeeEstimate" ->
                Holds(NetworkFeeEstimates', event'.fetch.key, result)
          [] getter \in {"getTokenBalance", "getBalance"} ->
                \E key \in DOMAIN TokenBalances' : TokenBalances'[key] # ""

\* C11: when a getter call fails, the state, with the field or key the call
\* would have written, stays as it was, the calls still unsettled stay so,
\* and a call that resolves, before or after, has its result in the state.
C11_FailureTolerated ==
    [][ /\ event'.op = "rejected" =>
              /\ state' = state
              /\ heap' = heap
              /\ fetches' = fetches (-) SetToBag({event'.fetch})
        /\ event'.op = "resolved" => ResultApplied ]_vars

\* C11 witness: the selected account could not be fetched and stays
\* undefined, the selected network could not either, and the exchanges, which
\* resolved last, are in the state
C11_Witness ==
    /\ event.op = "resolved"
    /\ event.fetch.getter = "getExchanges"
    /\ state.supportedExchanges = event.result[2]
    /\ state.selectedAccount = Undefined
    /\ state.selectedNetwork = Undefined
    /\ ~BagIn([getter |-> "getSelectedAccount"], fetches)
    /\ ~BagIn([getter |-> "getSelectedNetwork"], fetches)

\* C13: every key of tokenBalances is the lowercased contract address of a
\* token whose balance fetch resolved; tokenBalances being empty at first,
\* that is: a key comes into tokenBalances only when a balance fetch
\* resolves, as the lowercased contract address of its token.
C13_BalanceKeys ==
    [][ \A key \in DOMAIN TokenBalances' \ DOMAIN TokenBalances :
          /\ Settled("resolved", {"getTokenBalance", "getBalance"})
          /\ \E i \in DOMAIN state.tokenList :
                key = ToLowerCase(state.tokenList[i].contractAddress)
          /\ key = ToLowerCase(key) ]_vars

\* C14: when a price fetch for key k resolves with v, tokenSpotPrices[k] = v
\* and every other key of tokenSpotPrices keeps its value, whatever the order
\* in which price fetches resolve.
C14_SpotPricesLastWriteWins ==
    [][ Settled("resolved", {"getTokenPrice"}) =>
          /\ Holds(TokenSpotPrices', event'.fetch.key, event'.result[2])
          /\ \A key \in DOMAIN TokenSpotPrices \ {event'.fetch.key} :
                Holds(TokenSpotPrices', key, TokenSpotPrices[key]) ]_vars

\* C14 witness: a price has replaced an earlier, different price of the same
\* key while the price of another key is there
C14_Witness ==
    /\ event.op = "resolved"
    /\ event.fetch.getter = "getTokenPrice"
    /\ event.fetch.key = "SOL"
    /\ event.result[2] = "2.5"
    /\ Holds(TokenSpotPrices, "SOL", "2.5")
    /\ Holds(TokenSpotPrices, "EPjFWdd5", "1.5")
    /\ BagIn([ getter |-> "getTokenPrice", key |-> "SOL",
               prices |-> PricesObject ], fetches)

\* C15: updateTokenBalances merges per key: tokenBalances then maps every key
\* of the payload to the payload's value and every other key it had to the
\* value it had, and no other field of the wallet state changes.
C15_BalancesMerged ==
    [][ Settled("resolved", {"getTokenBalance", "getBalance"}) =>
          LET key == ToLowerCase(event'.fetch.key)
          IN  /\ Holds(TokenBalances', key, AmountNormalize(event'.result[2]))
              /\ DOMAIN TokenBalances' = DOMAIN TokenBalances \cup {key}
              /\ \A other \in DOMAIN TokenBalances \ {key} :
                    TokenBalances'[other] = TokenBalances[other]
              /\ OtherThanBalances' = OtherThanBalances ]_vars

\* C15 witness: a balance has come in next to two keys that were there
C15_Witness ==
    /\ event.op = "resolved"
    /\ event.fetch.getter = "getTokenBalance"
    /\ Holds(TokenBalances, "epjfwdd5", "16")
    /\ Cardinality(DOMAIN TokenBalances) = 3
    /\ state.tokenBalances = BalancesObject

\* C17: a spot-price fetch that resolves leaves tokenBalances and every field
\* of the wallet state other than the spot prices as they were.
C17_SpotPriceFrame ==
    [][ Settled("resolved", {"getTokenPrice"}) =>
          /\ TokenBalances' = TokenBalances
          /\ \A f \in DOMAIN state \ {"tokenBalances", "tokenSpotPrices"} :
                OtherThanBalances'[f] = OtherThanBalances[f] ]_vars

----------------------------------------------------------------------------
(* Properties of the selected route and of the provider's effects *)

\* C21: the route exchange submits is a member of the routes of the quote
\* the hook holds when it submits, after any sequence of setSelectedRoute,
\* refresh and exchange.
C21_RouteOfCurrentQuote ==
    [][ \A id \in Issued("getJupiterTransactionsPayload") :
          /\ quote # Undefined
          /\ inflight'[id].args.route \in Elements(quote.routes) ]_vars

\* C22: when every getter call settles, the provider comes to rest: from
\* some point on no getter call is pending, so no more are issued and the
\* state changes no more.
C22_Quiesces == <>[](fetches = EmptyBag)

====
